---- MODULE Spec2Model ----
(***************************************************************************)
(* Model of the mirror mod (contracts/mirror/mirror.cpp) and of the part   *)
(* of the Totems library it uses (contracts/library/totems.hpp).           *)
(*                                                                         *)
(* One step of the model is one transaction: the action that enters the    *)
(* contract, the inline actions it sends, and the notifications those      *)
(* cause.  A failed check aborts the transaction, so a failing step        *)
(* changes nothing; `last` records the most recent committed call.         *)
(*                                                                         *)
(* The Totems ledger itself is not part of the repository.  What the       *)
(* model takes from it: a transfer or burn moves the raw amount out of     *)
(* the sender's balance row and aborts when the row holds less; the        *)
(* quantity of a transfer notification and of a mint call carries the      *)
(* precision the totem was created with; totems are never removed.         *)
(* Only the balance rows of the contract's own account are kept.           *)
(***************************************************************************)
EXTENDS Integers, Sequences, FiniteSets

VARIABLES
    pairings,       \* rows of the "pairings" table, scope get_self()
    balances,       \* "accounts" rows of get_self(): ticker -> raw amount
    totems,         \* "totems" table of the Totems contract: ticker -> row
    licenses,       \* "licenses" tables of TOTEMS_CONTRACT, one per ticker scope
    proxy_licenses, \* "licenses" tables of PROXY_MOD_CONTRACT, one per scope
    proxy_account,  \* is_account(PROXY_MOD_CONTRACT)
    last,           \* the contract's most recent committed call
    issued          \* ticker -> synth paid out by mint minus synth burned

vars ==
    <<pairings, balances, totems, licenses, proxy_licenses, proxy_account, last,
      issued>>

(* ------------------------------ bounds -------------------------------- *)

\* largest raw amount of one incoming transfer
MaxAmount == 1
\* largest sum of raw balances the contract's account is let to reach
MaxHeld == 3

(* ----------------------------- constants ------------------------------ *)

Self == "mirror"
TOTEMS_CONTRACT == "totemstotems"
PROXY_MOD_CONTRACT == "totemodproxy"
NoSender == ""
OtherMod == "othermod"

Tickers == {"T", "S", "B"}
Users == {"alice", "bob"}
Mods == {Self, OtherMod}
Precisions == {2, 4}

Sym(code, precision) == [code |-> code, precision |-> precision]
Asset(amount, symbol) == [amount |-> amount, symbol |-> symbol]

NoTotem == [exists |-> FALSE, creator |-> "", precision |-> 0]
Totem(creator, precision) == [exists |-> TRUE, creator |-> creator, precision |-> precision]

\* The ledgers the model starts from: three totems of one creator and one
\* precision; two totems of one creator and different precisions beside a
\* totem of another creator; two totems and a ticker no totem has.
TotemConfigs ==
    { [t \in Tickers |-> Totem("alice", 4)],
      [t \in Tickers |-> IF t = "B" THEN Totem("bob", 4)
                         ELSE IF t = "S" THEN Totem("alice", 2)
                         ELSE Totem("alice", 4)],
      [t \in Tickers |-> IF t = "B" THEN NoTotem ELSE Totem("alice", 4)] }

(* --------------------------- totems.hpp ------------------------------- *)

get_totem(code) == totems[code]

\* the balance row is found by symbol code alone; a missing row reads as 0
get_balance(owner, ticker) ==
    Asset(balances[ticker.code], ticker)

TransferCmd(from, to, quantity, memo) ==
    [action |-> "transfer", from |-> from, to |-> to, quantity |-> quantity, memo |-> memo]

BurnCmd(owner, quantity, memo) ==
    [action |-> "burn", owner |-> owner, quantity |-> quantity, memo |-> memo]

\* a license check that reads the primary registry only
check_primary_license(ticker, mod) ==
    [ok |-> mod \in licenses[ticker], reads |-> <<"primary">>]

\* ok: whether the check passes; reads: the registries looked into, in order
check_license(ticker, mod) ==
    IF mod \in licenses[ticker]
    THEN [ok |-> TRUE, reads |-> <<"primary">>]
    ELSE IF proxy_account
         THEN [ok |-> mod \in proxy_licenses[ticker], reads |-> <<"primary", "fallback">>]
         ELSE [ok |-> FALSE, reads |-> <<"primary">>]

(* ------------------------ the Totems ledger --------------------------- *)

\* the outcome of a handler: its result ("ok", "ignored" or the error that
\* aborted it), the pairings table it leaves, the inline actions it sent and
\* the license registries it read
Outcome(result, rows, cmds, reads) ==
    [result |-> result, pairings |-> rows, cmds |-> cmds, reads |-> reads]

Succeeded(result) == result \in {"ok", "ignored"}

(* ---------------------------- mirror.cpp ------------------------------ *)

Pairing(synth_ticker, base_ticker, base_locked) ==
    [synth_ticker |-> synth_ticker, base_ticker |-> base_ticker, base_locked |-> base_locked]

\* pairings.find(code): the rows with that primary key (none or one)
find(rows, code) == {row \in rows : row.synth_ticker = code}

\* the rows a scan of the primary index from base_ticker would visit
by_synth(rows, base_ticker) == {row \in rows : row.synth_ticker = base_ticker}

\* a scan of the "bybase" index that stops after the first row
first_by_base(rows, base_ticker) ==
    LET matching == {row \in rows : row.base_ticker = base_ticker}
    IN  IF matching = {} THEN {} ELSE {CHOOSE row \in matching : TRUE}

\* the rows the "bybase" index yields from lower_bound(base) while the key matches
by_base(rows, base_ticker) == {row \in rows : row.base_ticker = base_ticker}

RECURSIVE SumBalances(_, _)
SumBalances(bal, codes) ==
    IF codes = {} THEN 0
    ELSE LET code == CHOOSE c \in codes : TRUE
         IN  bal[code] + SumBalances(bal, codes \ {code})

RECURSIVE SumLocked(_)
SumLocked(rows) ==
    IF rows = {} THEN 0
    ELSE LET row == CHOOSE r \in rows : TRUE
         IN  row.base_locked.amount + SumLocked(rows \ {row})

total_tracked(rows, base_ticker) == SumLocked(by_base(rows, base_ticker))

\* a modify that erases the row once nothing is locked
modify_or_erase(rows, row, base_locked) ==
    IF base_locked.amount = 0
    THEN rows \ {row}
    ELSE (rows \ {row}) \cup {[row EXCEPT !.base_locked = base_locked]}

\* pairings.modify(itr, ...) with the row's base_locked replaced
modify(rows, row, base_locked) ==
    (rows \ {row}) \cup {[row EXCEPT !.base_locked = base_locked]}

\* a lookup of the (synth, base) pair in place of the synth ticker
paired_with_base(rows, synth_ticker, base_ticker) ==
    \E row \in rows : /\ row.synth_ticker = synth_ticker.code
                      /\ row.base_ticker = base_ticker.code

\* the lookup before emplace: pairings.find(synth_ticker.code().raw()) != end
already_paired(rows, synth_ticker, base_ticker) ==
    find(rows, synth_ticker.code) # {}

\* setup without the comparison of the two creators
setup_any_creator(rows, auth, synth_ticker, base_ticker) ==
    LET base_totem == get_totem(base_ticker.code)
        synth_totem == get_totem(synth_ticker.code)
    IN  IF ~base_totem.exists \/ ~synth_totem.exists
        THEN Outcome("UnknownToken", rows, <<>>, <<>>)
        ELSE IF auth # base_totem.creator
        THEN Outcome("MissingAuth", rows, <<>>, <<>>)
        ELSE IF synth_ticker.precision # base_ticker.precision
        THEN Outcome("PrecisionMismatch", rows, <<>>, <<>>)
        ELSE IF synth_ticker = base_ticker
        THEN Outcome("IdenticalTickers", rows, <<>>, <<>>)
        ELSE IF already_paired(rows, synth_ticker, base_ticker)
        THEN Outcome("DuplicatePairing", rows, <<>>, <<>>)
        ELSE Outcome("ok",
                     rows \cup {Pairing(synth_ticker.code, base_ticker.code,
                                        Asset(0, base_ticker))},
                     <<>>, <<>>)

setup(rows, auth, synth_ticker, base_ticker) ==
    LET base_totem == get_totem(base_ticker.code)
        synth_totem == get_totem(synth_ticker.code)
    IN  IF ~base_totem.exists \/ ~synth_totem.exists
        THEN Outcome("UnknownToken", rows, <<>>, <<>>)
        ELSE IF auth # base_totem.creator
        THEN Outcome("MissingAuth", rows, <<>>, <<>>)
        ELSE IF base_totem.creator # synth_totem.creator
        THEN Outcome("CreatorMismatch", rows, <<>>, <<>>)
        ELSE IF synth_ticker.precision # base_ticker.precision
        THEN Outcome("PrecisionMismatch", rows, <<>>, <<>>)
        ELSE IF synth_ticker = base_ticker
        THEN Outcome("IdenticalTickers", rows, <<>>, <<>>)
        ELSE IF already_paired(rows, synth_ticker, base_ticker)
        THEN Outcome("DuplicatePairing", rows, <<>>, <<>>)
        ELSE Outcome("ok",
                     rows \cup {Pairing(synth_ticker.code, base_ticker.code,
                                        Asset(0, base_ticker))},
                     <<>>, <<>>)

\* the module mint is called with
given_module(mod) == mod

\* the module whose license mint asks for
mint_licensee(mod) == Self

\* delta >= 0 in place of delta > 0
no_withdrawal(delta) == delta >= 0

\* check(delta > 0, ...)
new_deposit(delta) == delta > 0

\* the balance alone, with nothing tracked taken off
whole_balance(rows, base_sym, base_ticker) ==
    get_balance(Self, base_sym).amount

mint_delta(rows, base_sym, base_ticker) ==
    get_balance(Self, base_sym).amount - total_tracked(rows, base_ticker)

\* mint that pays out the amount asked for
mint_requested(rows, sender, mod, minter, quantity, payment) ==
    LET synth_sym == quantity.symbol
        lic == check_license(synth_sym.code, mint_licensee(mod))
        found == find(rows, synth_sym.code)
    IN  IF sender # TOTEMS_CONTRACT
        THEN Outcome("WrongCaller", rows, <<>>, <<>>)
        ELSE IF ~lic.ok
        THEN Outcome("Unlicensed", rows, <<>>, lic.reads)
        ELSE IF payment.amount # 0
        THEN Outcome("UnexpectedPayment", rows, <<>>, lic.reads)
        ELSE IF found = {}
        THEN Outcome("NoPairing", rows, <<>>, lic.reads)
        ELSE
        LET pair_itr == CHOOSE row \in found : TRUE
            synth_totem == get_totem(synth_sym.code)
            base_sym == Sym(pair_itr.base_ticker, synth_sym.precision)
            delta == mint_delta(rows, base_sym, pair_itr.base_ticker)
        IN  IF ~synth_totem.exists
            THEN Outcome("UnknownToken", rows, <<>>, lic.reads)
            ELSE IF minter # synth_totem.creator
            THEN Outcome("Unauthorized", rows, <<>>, lic.reads)
            ELSE IF ~new_deposit(delta)
            THEN Outcome("NoNewDeposit", rows, <<>>, lic.reads)
            \* asset::operator+= checks that both assets have one symbol
            ELSE IF pair_itr.base_locked.symbol # base_sym
            THEN Outcome("SymbolMismatch", rows, <<>>, lic.reads)
            ELSE Outcome("ok",
                         modify(rows, pair_itr,
                                Asset(pair_itr.base_locked.amount + delta, base_sym)),
                         <<TransferCmd(Self, minter, Asset(quantity.amount, synth_sym),
                                       "Minted synth tokens")>>,
                         lic.reads)

\* mint without the comparison of the minter with the creator
mint_any_minter(rows, sender, mod, minter, quantity, payment) ==
    LET synth_sym == quantity.symbol
        lic == check_license(synth_sym.code, mint_licensee(mod))
        found == find(rows, synth_sym.code)
    IN  IF sender # TOTEMS_CONTRACT
        THEN Outcome("WrongCaller", rows, <<>>, <<>>)
        ELSE IF ~lic.ok
        THEN Outcome("Unlicensed", rows, <<>>, lic.reads)
        ELSE IF payment.amount # 0
        THEN Outcome("UnexpectedPayment", rows, <<>>, lic.reads)
        ELSE IF found = {}
        THEN Outcome("NoPairing", rows, <<>>, lic.reads)
        ELSE
        LET pair_itr == CHOOSE row \in found : TRUE
            synth_totem == get_totem(synth_sym.code)
            base_sym == Sym(pair_itr.base_ticker, synth_sym.precision)
            delta == mint_delta(rows, base_sym, pair_itr.base_ticker)
        IN  IF ~synth_totem.exists
            THEN Outcome("UnknownToken", rows, <<>>, lic.reads)
            ELSE IF ~new_deposit(delta)
            THEN Outcome("NoNewDeposit", rows, <<>>, lic.reads)
            \* asset::operator+= checks that both assets have one symbol
            ELSE IF pair_itr.base_locked.symbol # base_sym
            THEN Outcome("SymbolMismatch", rows, <<>>, lic.reads)
            ELSE Outcome("ok",
                         modify(rows, pair_itr,
                                Asset(pair_itr.base_locked.amount + delta, base_sym)),
                         <<TransferCmd(Self, minter, Asset(delta, synth_sym),
                                       "Minted synth tokens")>>,
                         lic.reads)

mint(rows, sender, mod, minter, quantity, payment) ==
    LET synth_sym == quantity.symbol
        lic == check_license(synth_sym.code, mint_licensee(mod))
        found == find(rows, synth_sym.code)
    IN  IF sender # TOTEMS_CONTRACT
        THEN Outcome("WrongCaller", rows, <<>>, <<>>)
        ELSE IF ~lic.ok
        THEN Outcome("Unlicensed", rows, <<>>, lic.reads)
        ELSE IF payment.amount # 0
        THEN Outcome("UnexpectedPayment", rows, <<>>, lic.reads)
        ELSE IF found = {}
        THEN Outcome("NoPairing", rows, <<>>, lic.reads)
        ELSE
        LET pair_itr == CHOOSE row \in found : TRUE
            synth_totem == get_totem(synth_sym.code)
            base_sym == Sym(pair_itr.base_ticker, synth_sym.precision)
            delta == mint_delta(rows, base_sym, pair_itr.base_ticker)
        IN  IF ~synth_totem.exists
            THEN Outcome("UnknownToken", rows, <<>>, lic.reads)
            ELSE IF minter # synth_totem.creator
            THEN Outcome("Unauthorized", rows, <<>>, lic.reads)
            ELSE IF ~new_deposit(delta)
            THEN Outcome("NoNewDeposit", rows, <<>>, lic.reads)
            \* asset::operator+= checks that both assets have one symbol
            ELSE IF pair_itr.base_locked.symbol # base_sym
            THEN Outcome("SymbolMismatch", rows, <<>>, lic.reads)
            ELSE Outcome("ok",
                         modify(rows, pair_itr,
                                Asset(pair_itr.base_locked.amount + delta, base_sym)),
                         <<TransferCmd(Self, minter, Asset(delta, synth_sym),
                                       "Minted synth tokens")>>,
                         lic.reads)

on_mint(rows, mod, minter, quantity, payment) ==
    Outcome("ok", rows, <<>>, <<>>)

\* the contract's balance of the base in place of the Pairing's base_locked
sufficient_balance(row, quantity) ==
    balances[row.base_ticker] >= quantity.amount

\* no comparison with the amount redeemed
any_reserves(row, quantity) == row.base_locked.amount >= 0

\* check(pair_itr->base_locked.amount >= quantity.amount, ...)
sufficient_reserves(row, quantity) == row.base_locked.amount >= quantity.amount

\* a redemption that burns the synth and sends no base back
redeem_keeping_base(rows, from, quantity, pair_itr) ==
    LET synth_sym == quantity.symbol
        lic == check_license(synth_sym.code, Self)
        base_sym == Sym(pair_itr.base_ticker, synth_sym.precision)
    IN  IF ~lic.ok
        THEN Outcome("Unlicensed", rows, <<>>, lic.reads)
        ELSE IF ~sufficient_reserves(pair_itr, quantity)
        THEN Outcome("InsufficientReserves", rows, <<>>, lic.reads)
        \* asset::operator-= checks that both assets have one symbol
        ELSE IF pair_itr.base_locked.symbol # base_sym
        THEN Outcome("SymbolMismatch", rows, <<>>, lic.reads)
        ELSE Outcome("ok",
                     modify(rows, pair_itr,
                            Asset(pair_itr.base_locked.amount - quantity.amount,
                                  base_sym)),
                     <<BurnCmd(Self, quantity, "Burned redeemed synths")>>,
                     lic.reads)

\* a redemption that sends no burn
redeem_unburned(rows, from, quantity, pair_itr) ==
    LET synth_sym == quantity.symbol
        lic == check_license(synth_sym.code, Self)
        base_sym == Sym(pair_itr.base_ticker, synth_sym.precision)
    IN  IF ~lic.ok
        THEN Outcome("Unlicensed", rows, <<>>, lic.reads)
        ELSE IF ~sufficient_reserves(pair_itr, quantity)
        THEN Outcome("InsufficientReserves", rows, <<>>, lic.reads)
        \* asset::operator-= checks that both assets have one symbol
        ELSE IF pair_itr.base_locked.symbol # base_sym
        THEN Outcome("SymbolMismatch", rows, <<>>, lic.reads)
        ELSE Outcome("ok",
                     modify(rows, pair_itr,
                            Asset(pair_itr.base_locked.amount - quantity.amount,
                                  base_sym)),
                     <<TransferCmd(Self, from, Asset(quantity.amount, base_sym),
                                   "Redeemed synth tokens")>>,
                     lic.reads)

\* on_transfer from the license check on: the transfer is a redemption
redeem(rows, from, quantity, pair_itr) ==
    LET synth_sym == quantity.symbol
        lic == check_license(synth_sym.code, Self)
        base_sym == Sym(pair_itr.base_ticker, synth_sym.precision)
    IN  IF ~lic.ok
        THEN Outcome("Unlicensed", rows, <<>>, lic.reads)
        ELSE IF ~sufficient_reserves(pair_itr, quantity)
        THEN Outcome("InsufficientReserves", rows, <<>>, lic.reads)
        \* asset::operator-= checks that both assets have one symbol
        ELSE IF pair_itr.base_locked.symbol # base_sym
        THEN Outcome("SymbolMismatch", rows, <<>>, lic.reads)
        ELSE Outcome("ok",
                     modify(rows, pair_itr,
                            Asset(pair_itr.base_locked.amount - quantity.amount,
                                  base_sym)),
                     <<TransferCmd(Self, from, Asset(quantity.amount, base_sym),
                                   "Redeemed synth tokens"),
                       BurnCmd(Self, quantity, "Burned redeemed synths")>>,
                     lic.reads)

\* on_transfer that ignores only the transfers to other accounts
on_transfer_to_self(rows, from, to, quantity) ==
    LET found == find(rows, quantity.symbol.code)
    IN  IF to # Self
        THEN Outcome("ignored", rows, <<>>, <<>>)
        ELSE IF found = {}
        THEN Outcome("ok", rows, <<>>, <<>>)
        ELSE redeem(rows, from, quantity, CHOOSE row \in found : TRUE)

\* on_transfer with the license check ahead of the Pairing lookup
on_transfer_licensed(rows, from, to, quantity) ==
    LET found == find(rows, quantity.symbol.code)
        lic == check_license(quantity.symbol.code, Self)
    IN  IF to # Self \/ from = Self
        THEN Outcome("ignored", rows, <<>>, <<>>)
        ELSE IF ~lic.ok
        THEN Outcome("Unlicensed", rows, <<>>, lic.reads)
        ELSE IF found = {}
        THEN Outcome("ok", rows, <<>>, <<>>)
        ELSE redeem(rows, from, quantity, CHOOSE row \in found : TRUE)

on_transfer(rows, from, to, quantity) ==
    LET found == find(rows, quantity.symbol.code)
    IN  IF to # Self \/ from = Self
        THEN Outcome("ignored", rows, <<>>, <<>>)
        ELSE IF found = {}
        THEN Outcome("ok", rows, <<>>, <<>>)
        ELSE redeem(rows, from, quantity, CHOOSE row \in found : TRUE)

(* ----------------------- one transaction ------------------------------- *)

\* The inline actions sent by the contract, run by the ledger in order after
\* the handler returns.  A transfer or burn takes the amount out of the
\* contract's balance row and aborts the transaction when the row holds less.
\* A transfer notifies its sender and its recipient, so the contract's own
\* on_transfer runs for each of its outbound transfers.
RECURSIVE Execute(_, _, _, _)
Execute(rows, bal, queue, done) ==
    IF queue = <<>>
    THEN [result |-> "ok", pairings |-> rows, balances |-> bal, cmds |-> done]
    ELSE LET c == Head(queue)
             code == c.quantity.symbol.code
         IN  IF bal[code] < c.quantity.amount
             THEN [result |-> "Overdrawn", pairings |-> rows, balances |-> bal,
                   cmds |-> done]
             ELSE LET paid == [bal EXCEPT ![code] = @ - c.quantity.amount]
                      note == IF c.action = "transfer"
                              THEN on_transfer(rows, c.from, c.to, c.quantity)
                              ELSE Outcome("ignored", rows, <<>>, <<>>)
                  IN  IF ~Succeeded(note.result)
                      THEN [result |-> note.result, pairings |-> rows,
                            balances |-> bal, cmds |-> done]
                      ELSE Execute(note.pairings, paid, Tail(queue) \o note.cmds,
                                   Append(done, c))

\* a handler's outcome followed by the inline actions it sent
Transact(out, bal) ==
    IF ~Succeeded(out.result)
    THEN [result |-> out.result, pairings |-> out.pairings, balances |-> bal,
          cmds |-> <<>>]
    ELSE Execute(out.pairings, bal, out.cmds, <<>>)

PaymentSym == Sym("A", 4)
NoSym == Sym("", 0)

\* what `last` keeps of a committed call: the handler, the symbol of its
\* quantity, the inline actions that ran and the license registries read
Call(op, symbol, out, tx) ==
    [op |-> op, symbol |-> symbol, cmds |-> tx.cmds, reads |-> out.reads]

NoCall == [op |-> "none", symbol |-> NoSym, cmds |-> <<>>, reads |-> <<>>]

\* A transaction that aborts leaves every table as it was, and no trace.
\* what the inline actions of a call add to the synth of ticker t in issue:
\* the transfers a mint sends, less the burns
RECURSIVE NetIssued(_, _, _)
NetIssued(call, cmds, t) ==
    IF cmds = <<>>
    THEN 0
    ELSE LET c == Head(cmds)
             n == IF c.quantity.symbol.code # t THEN 0
                  ELSE IF c.action = "burn" THEN 0 - c.quantity.amount
                  ELSE IF call.op = "mint" THEN c.quantity.amount
                  ELSE 0
         IN  n + NetIssued(call, Tail(cmds), t)

Commit(tx, call) ==
    IF Succeeded(tx.result)
    THEN /\ pairings' = tx.pairings
         /\ balances' = tx.balances
         /\ last' = call
         /\ issued' = [t \in Tickers |-> issued[t] + NetIssued(call, tx.cmds, t)]
         /\ UNCHANGED <<totems, licenses, proxy_licenses, proxy_account>>
    ELSE UNCHANGED vars

\* the symbol the ledger hands over for a ticker
LedgerSym(code) ==
    Sym(code, IF totems[code].exists THEN totems[code].precision ELSE 4)

(* ------------------------------- inputs ------------------------------- *)

Senders == {TOTEMS_CONTRACT, NoSender}

SetupInputs ==
    [auth : Users, synth : Tickers, base : Tickers, ps : Precisions, pb : Precisions]

\* the amounts a mint's quantity is given with: those of a transfer and one more
MintAmounts == 1..(MaxAmount + 1)

MintInputs ==
    [sender : Senders, mod : Mods, minter : Users, code : Tickers,
     amount : MintAmounts, pay : {0, 1}]

TransferInputs ==
    [from : Users, code : {t \in Tickers : totems[t].exists}, amount : 1..MaxAmount]

CreatorOf(code) == IF totems[code].exists THEN totems[code].creator ELSE "alice"

\* the calls the actions make: a well-formed call, and the calls that differ
\* from one in a single input (setup's two precisions count as one input)
SetupCalls ==
    UNION { {[auth |-> u, synth |-> s, base |-> b,
              ps |-> LedgerSym(s).precision, pb |-> LedgerSym(s).precision] :
                u \in Users}
            \cup
            {[auth |-> CreatorOf(b), synth |-> s, base |-> b, ps |-> p.s, pb |-> p.b] :
                p \in [s : Precisions, b : Precisions]} :
            s \in Tickers, b \in Tickers }

WellFormedMint(code) ==
    [sender |-> TOTEMS_CONTRACT, mod |-> Self, minter |-> CreatorOf(code),
     code |-> code, amount |-> 1, pay |-> 0]

MintCalls ==
    UNION { LET w == WellFormedMint(code)
            IN  {[w EXCEPT !.sender = x] : x \in Senders}
                \cup {[w EXCEPT !.mod = x] : x \in Mods}
                \cup {[w EXCEPT !.minter = x] : x \in Users}
                \cup {[w EXCEPT !.amount = x] : x \in MintAmounts}
                \cup {[w EXCEPT !.pay = x] : x \in {0, 1}} :
            code \in Tickers }

\* the contents the administration gives the license registries: none; the
\* contract licensed for every ticker; the contract licensed for one ticker
\* and another module for another; the fallback authority's account created
\* and the contract licensed there for two tickers
LicenseConfigs ==
    { [licenses |-> [t \in Tickers |-> {}],
       proxy_licenses |-> [t \in Tickers |-> {}], proxy_account |-> FALSE],
      [licenses |-> [t \in Tickers |-> {Self}],
       proxy_licenses |-> [t \in Tickers |-> {}], proxy_account |-> FALSE],
      [licenses |-> [t \in Tickers |-> IF t = "T" THEN {Self}
                                       ELSE IF t = "S" THEN {OtherMod} ELSE {}],
       proxy_licenses |-> [t \in Tickers |-> {}], proxy_account |-> FALSE],
      [licenses |-> [t \in Tickers |-> {}],
       proxy_licenses |-> [t \in Tickers |-> IF t = "B" THEN {} ELSE {Self}],
       proxy_account |-> TRUE] }

(* --------------- a call with its transaction, as the ledger runs it ---- *)

SetupOut(i) == setup(pairings, i.auth, Sym(i.synth, i.ps), Sym(i.base, i.pb))

SetupTx(i) == Transact(SetupOut(i), balances)

MintQuantity(i) == Asset(i.amount, LedgerSym(i.code))

MintOut(i) ==
    mint(pairings, i.sender, i.mod, i.minter, MintQuantity(i), Asset(i.pay, PaymentSym))

MintTx(i) == Transact(MintOut(i), balances)

TransferQuantity(i) == Asset(i.amount, LedgerSym(i.code))

\* the ledger credits the contract's balance row, then notifies the contract
Credited(i) == [balances EXCEPT ![i.code] = @ + i.amount]

TransferOut(i) == on_transfer(pairings, i.from, Self, TransferQuantity(i))

TransferTx(i) == Transact(TransferOut(i), Credited(i))

(* ------------------------------ actions ------------------------------- *)

Init ==
    /\ pairings = {}
    /\ balances = [t \in Tickers |-> 0]
    /\ totems \in TotemConfigs
    /\ licenses = [t \in Tickers |-> {}]
    /\ proxy_licenses = [t \in Tickers |-> {}]
    /\ proxy_account = FALSE
    /\ last = NoCall
    /\ issued = [t \in Tickers |-> 0]

Setup ==
    \E i \in SetupCalls :
        Commit(SetupTx(i), Call("setup", Sym(i.synth, i.ps), SetupOut(i), SetupTx(i)))

Mint ==
    \E i \in MintCalls :
        Commit(MintTx(i), Call("mint", LedgerSym(i.code), MintOut(i), MintTx(i)))

\* the ledger's notice of a mint
OnMint ==
    \E i \in MintCalls :
        LET out == on_mint(pairings, i.mod, i.minter, MintQuantity(i),
                           Asset(i.pay, PaymentSym))
            tx == Transact(out, balances)
        IN  Commit(tx, Call("on_mint", NoSym, out, tx))

\* a user's transfer to the contract
Transfer ==
    \E i \in TransferInputs :
        /\ Succeeded(TransferTx(i).result) =>
               SumBalances(TransferTx(i).balances, Tickers) <= MaxHeld
        /\ Commit(TransferTx(i),
                  Call("transfer", LedgerSym(i.code), TransferOut(i), TransferTx(i)))

\* external administration of the license registries; an account, once
\* created, stays
SetLicenses ==
    \E c \in LicenseConfigs :
        /\ proxy_account => c.proxy_account
        /\ licenses' = c.licenses
        /\ proxy_licenses' = c.proxy_licenses
        /\ proxy_account' = c.proxy_account
        /\ UNCHANGED <<pairings, balances, totems, last, issued>>

Next ==
    \/ Setup
    \/ Mint
    \/ OnMint
    \/ Transfer
    \/ SetLicenses

Spec == Init /\ [][Next]_vars

(* ------------------------------ claims -------------------------------- *)

\* the sum of base_locked over the Pairings whose base_ticker is `code`
Tracked(rows, code) == SumLocked({row \in rows : row.base_ticker = code})

HasPairing(code) == \E row \in pairings : row.synth_ticker = code
RowOf(rows, code) == CHOOSE row \in rows : row.synth_ticker = code
Locked(rows, code) == RowOf(rows, code).base_locked.amount
BaseOf(code) == RowOf(pairings, code).base_ticker

\* balance of the base minus the tracked sum, for the Pairing of synth `code`
Surplus(code) == balances[BaseOf(code)] - Tracked(pairings, BaseOf(code))

\* a License record for the module exists in a registry scoped to the ticker
Licensed(code, mod) == mod \in licenses[code] \/ mod \in proxy_licenses[code]

Unchanged(tx, bal) ==
    /\ tx.pairings = pairings
    /\ tx.balances = bal
    /\ tx.cmds = <<>>

\* C1: for every base ticker, the sum of base_locked over the Pairings with
\* that base is at most the balance the contract holds of it.
C1_LockedWithinBalance ==
    \A b \in Tickers : Tracked(pairings, b) <= balances[b]

\* C2: a mint that succeeds raises the Pairing's base_locked by exactly the
\* surplus measured before the call, and sends exactly one inline action: a
\* transfer of that many units of the synth from the contract to the minter.
C2_MintLocksAndPaysDelta ==
    \A i \in MintCalls :
        LET tx == MintTx(i) IN
        tx.result = "ok" =>
            /\ Locked(tx.pairings, i.code) = Locked(pairings, i.code) + Surplus(i.code)
            /\ tx.cmds =
                   <<TransferCmd(Self, i.minter, Asset(Surplus(i.code), LedgerSym(i.code)),
                                 "Minted synth tokens")>>
            /\ tx.balances = [balances EXCEPT ![i.code] = @ - Surplus(i.code)]

\* C2 witness: a mint has just locked and paid out its surplus.
C2_Witness ==
    /\ last.op = "mint"
    /\ Len(last.cmds) = 1
    /\ last.cmds[1].action = "transfer"
    /\ Locked(pairings, last.symbol.code) = last.cmds[1].quantity.amount
    /\ last.cmds[1].quantity.amount > 0

\* the gates of mint before the surplus is measured
MintGatesHold(i) ==
    /\ i.sender = TOTEMS_CONTRACT
    /\ Licensed(i.code, Self)
    /\ i.pay = 0
    /\ HasPairing(i.code)
    /\ totems[i.code].exists
    /\ i.minter = totems[i.code].creator

\* C3 as claimed: with its gates holding, mint succeeds if and only if the
\* surplus is positive, and otherwise fails with NoNewDeposit, changing
\* nothing.
C3_MintSucceedsIffSurplus ==
    \A i \in MintCalls :
        LET tx == MintTx(i) IN
        MintGatesHold(i) =>
            /\ tx.result = "ok" <=> Surplus(i.code) > 0
            /\ Surplus(i.code) <= 0 =>
                   tx.result = "NoNewDeposit" /\ Unchanged(tx, balances)

\* C3 amended: with its gates holding, mint fails with NoNewDeposit if
\* and only if the surplus is zero or negative, changing nothing; with a
\* positive surplus it succeeds if and only if the Pairing's base_locked was
\* set up with the precision of the synth's quantity and the contract holds
\* at least the surplus of the synth to pay out.
C3_MintNoNewDeposit ==
    \A i \in MintCalls :
        LET tx == MintTx(i) IN
        MintGatesHold(i) =>
            /\ tx.result = "NoNewDeposit" <=> Surplus(i.code) <= 0
            /\ Surplus(i.code) <= 0 => Unchanged(tx, balances)
            /\ tx.result = "ok" <=>
                   /\ Surplus(i.code) > 0
                   /\ RowOf(pairings, i.code).base_locked.symbol.precision
                          = LedgerSym(i.code).precision
                   /\ balances[i.code] >= Surplus(i.code)

\* C3 witness: right after a mint, a second mint of the same synth passes
\* every gate and fails with NoNewDeposit.
C3_Witness ==
    /\ last.op = "mint"
    /\ \E i \in MintCalls :
           /\ i.code = last.symbol.code
           /\ MintGatesHold(i)
           /\ Surplus(i.code) = 0
           /\ MintTx(i).result = "NoNewDeposit"

\* the inline actions of a redemption of `i.amount` of the synth `i.code`
RedemptionCmds(i) ==
    <<TransferCmd(Self, i.from,
                  Asset(i.amount, Sym(BaseOf(i.code), LedgerSym(i.code).precision)),
                  "Redeemed synth tokens"),
      BurnCmd(Self, TransferQuantity(i), "Burned redeemed synths")>>

\* C4: an incoming transfer of a paired ticker, with the license check
\* passing and base_locked at least the amount, lowers base_locked by
\* exactly the amount, transfers exactly the amount of the base token back
\* to the sender and burns exactly the amount of the synth.
C4_RedemptionReleasesAmount ==
    \A i \in TransferInputs :
        LET tx == TransferTx(i) IN
        (HasPairing(i.code) /\ Licensed(i.code, Self)
            /\ Locked(pairings, i.code) >= i.amount) =>
            /\ tx.result = "ok"
            /\ Locked(tx.pairings, i.code) = Locked(pairings, i.code) - i.amount
            /\ tx.cmds = RedemptionCmds(i)

\* C5 as claimed: a redemption of more than the Pairing's base_locked
\* always fails with InsufficientReserves and changes nothing.
C5_ExcessRedemptionInsufficient ==
    \A i \in TransferInputs :
        LET tx == TransferTx(i) IN
        (HasPairing(i.code) /\ i.amount > Locked(pairings, i.code)) =>
            /\ tx.result = "InsufficientReserves"
            /\ Unchanged(tx, Credited(i))

\* C5 amended: a redemption of more than the Pairing's base_locked always
\* fails, with InsufficientReserves when the license check passes and with
\* Unlicensed when it does not, whatever the other Pairings of the base have
\* locked and whatever the contract holds; the transaction aborts, so the
\* Pairing is unchanged and no transfer and no burn is issued.
C5_ExcessRedemptionFails ==
    \A i \in TransferInputs :
        LET tx == TransferTx(i) IN
        (HasPairing(i.code) /\ i.amount > Locked(pairings, i.code)) =>
            /\ tx.result =
                   IF Licensed(i.code, Self) THEN "InsufficientReserves" ELSE "Unlicensed"
            /\ tx.pairings = pairings
            /\ tx.cmds = <<>>

\* C5 witness: a licensed redemption exceeds its Pairing's base_locked
\* while another Pairing of the same base has that much locked and the
\* contract holds that much of the base; it fails with InsufficientReserves.
C5_Witness ==
    \E i \in TransferInputs :
        /\ HasPairing(i.code)
        /\ Licensed(i.code, Self)
        /\ i.amount > Locked(pairings, i.code)
        /\ \E row \in pairings :
               /\ row.synth_ticker # i.code
               /\ row.base_ticker = BaseOf(i.code)
               /\ row.base_locked.amount >= i.amount
        /\ balances[BaseOf(i.code)] >= i.amount
        /\ TransferTx(i).result = "InsufficientReserves"

\* what setup checks before it looks the synth ticker up
SetupGatesHold(i) ==
    /\ totems[i.synth].exists
    /\ totems[i.base].exists
    /\ i.auth = totems[i.base].creator
    /\ totems[i.base].creator = totems[i.synth].creator
    /\ i.ps = i.pb
    /\ i.synth # i.base

\* C6: the table holds at most one Pairing per synth ticker.  A setup call
\* by the creator for two distinct tokens of one creator, given with equal
\* precision, succeeds when the synth ticker has no Pairing, creating one
\* with base_locked 0; once the synth ticker has a Pairing, such a call fails
\* with DuplicatePairing whatever its base ticker, and every setup call for
\* that synth ticker leaves the table as it is.
C6_SetupOncePerSynth ==
    /\ \A r1 \in pairings, r2 \in pairings :
           r1.synth_ticker = r2.synth_ticker => r1 = r2
    /\ \A i \in SetupCalls :
           LET tx == SetupTx(i) IN
           /\ (SetupGatesHold(i) /\ ~HasPairing(i.synth)) =>
                  /\ tx.result = "ok"
                  /\ tx.pairings =
                         pairings \cup {Pairing(i.synth, i.base, Asset(0, Sym(i.base, i.pb)))}
           /\ (SetupGatesHold(i) /\ HasPairing(i.synth)) =>
                  tx.result = "DuplicatePairing"
           /\ HasPairing(i.synth) =>
                  ~Succeeded(tx.result) /\ tx.pairings = pairings

\* C6 witness: a synth ticker was set up and minted, and a setup call for
\* it with another base ticker fails with DuplicatePairing.
C6_Witness ==
    \E i \in SetupCalls :
        /\ SetupGatesHold(i)
        /\ HasPairing(i.synth)
        /\ BaseOf(i.synth) # i.base
        /\ Locked(pairings, i.synth) > 0
        /\ SetupTx(i).result = "DuplicatePairing"

\* C7: check_license passes if and only if a License record for the
\* module exists in the primary or in the fallback registry scoped to the
\* ticker; it reads the primary registry first, and the fallback registry
\* only when the primary one missed and the fallback authority's account
\* exists.  A mint sent by the Totems contract, and a redemption, fail with
\* Unlicensed exactly when the contract is in neither registry.
C7_CheckLicense ==
    /\ \A t \in Tickers, m \in Mods :
           /\ check_license(t, m).ok <=> Licensed(t, m)
           /\ check_license(t, m).reads =
                  IF m \notin licenses[t] /\ proxy_account
                  THEN <<"primary", "fallback">> ELSE <<"primary">>
    /\ \A i \in MintCalls :
           i.sender = TOTEMS_CONTRACT =>
               (MintTx(i).result = "Unlicensed" <=> ~Licensed(i.code, Self))
    /\ \A i \in TransferInputs :
           HasPairing(i.code) =>
               (TransferTx(i).result = "Unlicensed" <=> ~Licensed(i.code, Self))

\* C7 witness: a mint went through on a License found in the fallback
\* registry, after the primary registry missed.
C7_Witness ==
    /\ last.op = "mint"
    /\ last.reads = <<"primary", "fallback">>
    /\ Self \notin licenses[last.symbol.code]
    /\ Self \in proxy_licenses[last.symbol.code]

\* C8 as claimed: a mint fails with Unlicensed unless the module passed
\* to it holds a License for the synth ticker; a mint whose module input is
\* unlicensed changes no Pairing and transfers no synth.
C8_MintNeedsLicensedModuleInput ==
    \A i \in MintCalls :
        LET tx == MintTx(i) IN
        (i.sender = TOTEMS_CONTRACT /\ ~Licensed(i.code, i.mod)) =>
            /\ tx.result = "Unlicensed"
            /\ Unchanged(tx, balances)

\* C8 amended: a mint sent by the Totems contract fails with Unlicensed
\* unless the contract itself (get_self), not the module passed to mint,
\* holds a License for the synth ticker; a mint for a ticker the contract is
\* unlicensed for changes no Pairing and transfers no synth, and the module
\* input has no part in the outcome.
C8_MintNeedsLicensedContract ==
    \A i \in MintCalls :
        LET tx == MintTx(i) IN
        /\ (i.sender = TOTEMS_CONTRACT /\ ~Licensed(i.code, Self)) =>
               /\ tx.result = "Unlicensed"
               /\ Unchanged(tx, balances)
        /\ Licensed(i.code, Self) => tx.result # "Unlicensed"
        /\ tx = MintTx([i EXCEPT !.mod = Self])

\* C8 witness: the module passed to mint holds a License and the contract
\* does not; the mint, which has a Pairing and a surplus to lock, fails
\* with Unlicensed.
C8_Witness ==
    \E i \in MintCalls :
        /\ i.sender = TOTEMS_CONTRACT
        /\ i.mod # Self
        /\ Licensed(i.code, i.mod)
        /\ ~Licensed(i.code, Self)
        /\ HasPairing(i.code)
        /\ Surplus(i.code) > 0
        /\ MintTx(i).result = "Unlicensed"

\* C9: an incoming transfer of a ticker that has no Pairing never fails,
\* whatever the licenses; it changes no Pairing and issues no inline
\* action, and leaves the contract's balance of the ticker larger by the
\* amount, which is the surplus a mint on that base then measures.
C9_DepositAcceptedSilently ==
    \A i \in TransferInputs :
        LET tx == TransferTx(i) IN
        ~HasPairing(i.code) =>
            /\ tx.result = "ok"
            /\ tx.pairings = pairings
            /\ tx.cmds = <<>>
            /\ tx.balances = [balances EXCEPT ![i.code] = @ + i.amount]
            /\ \A row \in pairings :
                   row.base_ticker = i.code =>
                       tx.balances[i.code] - total_tracked(tx.pairings, i.code)
                           = Surplus(row.synth_ticker) + i.amount

\* C9 witness: with no License anywhere, a transfer of a ticker that is
\* the base of a Pairing and has no Pairing of its own was accepted.
C9_Witness ==
    /\ last.op = "transfer"
    /\ last.cmds = <<>>
    /\ ~HasPairing(last.symbol.code)
    /\ \E row \in pairings : row.base_ticker = last.symbol.code
    /\ balances[last.symbol.code] > 0
    /\ \A t \in Tickers : licenses[t] = {} /\ proxy_licenses[t] = {}

\* C10: base_locked of every Pairing is at least zero.
C10_LockedNonNegative ==
    \A row \in pairings : row.base_locked.amount >= 0

\* C10 witness: a redemption has brought a Pairing's base_locked back to 0.
C10_Witness ==
    /\ last.op = "transfer"
    /\ Len(last.cmds) = 2
    /\ Locked(pairings, last.symbol.code) = 0

\* C11: in every step, each Pairing stays in the table with its
\* synth_ticker, its base_ticker and the symbol of its base_locked; a Pairing
\* enters the table only by setup, with base_locked 0; the amount of its
\* base_locked changes only in a step that is a mint for its synth ticker,
\* which raises it, or a redemption of its synth ticker, which lowers it by
\* the amount redeemed.
C11_PairingLifecycle ==
    [][ /\ \A row \in pairings :
               \E kept \in pairings' :
                   /\ kept.synth_ticker = row.synth_ticker
                   /\ kept.base_ticker = row.base_ticker
                   /\ kept.base_locked.symbol = row.base_locked.symbol
                   /\ kept.base_locked.amount # row.base_locked.amount =>
                          /\ last'.symbol.code = row.synth_ticker
                          /\ \/ /\ last'.op = "mint"
                                /\ kept.base_locked.amount > row.base_locked.amount
                             \/ /\ last'.op = "transfer"
                                /\ Len(last'.cmds) = 2
                                /\ kept.base_locked.amount =
                                       row.base_locked.amount - last'.cmds[2].quantity.amount
        /\ \A new \in pairings' \ pairings :
               (\A row \in pairings : row.synth_ticker # new.synth_ticker) =>
                   /\ last'.op = "setup"
                   /\ last'.symbol.code = new.synth_ticker
                   /\ new.base_locked.amount = 0
                   /\ pairings' = pairings \cup {new}
      ]_vars

\* C11 witness: a Pairing was minted and then redeemed in full, and is
\* still in the table with the base it was set up with.
C11_Witness ==
    /\ last.op = "transfer"
    /\ Len(last.cmds) = 2
    /\ \E row \in pairings :
           /\ row.synth_ticker = last.symbol.code
           /\ row.base_ticker = last.cmds[1].quantity.symbol.code
           /\ row.base_locked.amount = 0
           /\ balances[row.base_ticker] = 0

\* C12: every Pairing relates two different tickers whose tokens have
\* the same precision: setup never creates a Pairing of one ticker with
\* itself or of two tokens whose precisions differ.
C12_DistinctTickersSamePrecision ==
    \A row \in pairings :
        /\ row.synth_ticker # row.base_ticker
        /\ totems[row.synth_ticker].precision = totems[row.base_ticker].precision

\* C13: a setup call changes the table only when both tickers are
\* existing tokens, the caller is the creator of the base token and the
\* synth token has the same creator.  A call for a missing token fails with
\* UnknownToken, a call by anyone but the base token's creator fails on the
\* authorization, a call for tokens of two creators fails with
\* CreatorMismatch; each leaves the table unchanged.
C13_SetupNeedsCreator ==
    \A i \in SetupCalls :
        LET tx == SetupTx(i)
            both == totems[i.synth].exists /\ totems[i.base].exists
            owner == i.auth = totems[i.base].creator
            same == totems[i.base].creator = totems[i.synth].creator
        IN  /\ tx.pairings # pairings => both /\ owner /\ same
            /\ ~both => tx.result = "UnknownToken"
            /\ (both /\ ~owner) => tx.result = "MissingAuth"
            /\ (both /\ owner /\ ~same) => tx.result = "CreatorMismatch"
            /\ ~(both /\ owner /\ same) => Unchanged(tx, balances)

\* C13 witness: after a setup by the creator of both tokens, a call by the
\* creator of a base token whose synth token is someone else's fails with
\* CreatorMismatch, and a call by another account fails on the authorization.
C13_Witness ==
    /\ last.op = "setup"
    /\ pairings # {}
    /\ \E i \in SetupCalls : SetupTx(i).result = "CreatorMismatch"
    /\ \E i \in SetupCalls : SetupTx(i).result = "MissingAuth"

\* C14: mint changes a Pairing and transfers synth only when the call
\* is sent by the Totems contract, the payment is 0, the synth ticker has a
\* Pairing and the minter is the synth token's creator.  The gates are
\* checked in this order, after the sender the license: the first one that
\* fails decides the error (WrongCaller, UnexpectedPayment, NoPairing,
\* Unauthorized), and when any of them fails the table is unchanged and no
\* transfer is sent.
C14_MintGates ==
    \A i \in MintCalls :
        LET tx == MintTx(i)
            caller == i.sender = TOTEMS_CONTRACT
            licensed == Licensed(i.code, Self)
            unpaid == i.pay = 0
            paired == HasPairing(i.code)
            creator == totems[i.code].exists /\ i.minter = totems[i.code].creator
        IN  /\ ~caller => tx.result = "WrongCaller"
            /\ (caller /\ licensed /\ ~unpaid) => tx.result = "UnexpectedPayment"
            /\ (caller /\ licensed /\ unpaid /\ ~paired) => tx.result = "NoPairing"
            /\ (caller /\ licensed /\ unpaid /\ paired /\ ~creator) =>
                   tx.result = "Unauthorized"
            /\ ~(caller /\ unpaid /\ paired /\ creator) => Unchanged(tx, balances)
            /\ (tx.pairings # pairings \/ tx.cmds # <<>>) =>
                   caller /\ unpaid /\ paired /\ creator

\* C14 witness: a licensed Pairing has a surplus to mint and the synth to
\* pay it; from this state the call fails with WrongCaller from another
\* sender, with UnexpectedPayment with a payment, with Unauthorized for
\* another minter, and a call for an unpaired ticker fails with NoPairing.
C14_Witness ==
    \E i \in MintCalls :
        /\ MintTx(i).result = "ok"
        /\ MintTx([i EXCEPT !.sender = NoSender]).result = "WrongCaller"
        /\ MintTx([i EXCEPT !.pay = 1]).result = "UnexpectedPayment"
        /\ \E u \in Users : MintTx([i EXCEPT !.minter = u]).result = "Unauthorized"
        /\ \E j \in MintCalls : MintTx(j).result = "NoPairing"

Accounts == Users \cup {Self}

\* C15: the notice of a mint changes no Pairing and sends no command; a
\* transfer notice in which the contract is the sender, or is not the
\* recipient, changes no Pairing and sends no command, whatever the ticker
\* and the licenses; hence the inline actions of a mint and of a redemption
\* run as the handler sent them, with no nested redemption, and leave the
\* table as the handler wrote it.
C15_OwnNotificationsInert ==
    /\ \A i \in MintCalls :
           LET out == on_mint(pairings, i.mod, i.minter, MintQuantity(i),
                              Asset(i.pay, PaymentSym))
           IN  Succeeded(out.result) /\ out.pairings = pairings /\ out.cmds = <<>>
    /\ \A from \in Accounts, to \in Accounts, i \in TransferInputs :
           (to # Self \/ from = Self) =>
               LET out == on_transfer(pairings, from, to, TransferQuantity(i))
               IN  Succeeded(out.result) /\ out.pairings = pairings /\ out.cmds = <<>>
    /\ \A i \in MintCalls :
           Succeeded(MintTx(i).result) =>
               MintTx(i).cmds = MintOut(i).cmds /\ MintTx(i).pairings = MintOut(i).pairings
    /\ \A i \in TransferInputs :
           Succeeded(TransferTx(i).result) =>
               /\ TransferTx(i).cmds = TransferOut(i).cmds
               /\ TransferTx(i).pairings = TransferOut(i).pairings

\* C15 witness: a redemption sent back a base token that is itself the
\* synth of a Pairing the contract is licensed for, and that Pairing is as
\* it was set up.
C15_Witness ==
    /\ last.op = "transfer"
    /\ Len(last.cmds) = 2
    /\ HasPairing(last.cmds[1].quantity.symbol.code)
    /\ Licensed(last.cmds[1].quantity.symbol.code, Self)
    /\ Locked(pairings, last.cmds[1].quantity.symbol.code) = 0

\* C16: two mint calls made in one state that differ only in the
\* amount of their quantity have the same outcome: the same result, the same
\* table with the same base_locked, the same transfer of synth and the same
\* balances.
C16_MintIgnoresQuantityAmount ==
    \A i \in MintCalls, a \in MintAmounts :
        LET tx == MintTx(i)
            other == MintTx([i EXCEPT !.amount = a])
        IN  /\ other.result = tx.result
            /\ other.pairings = tx.pairings
            /\ other.cmds = tx.cmds
            /\ other.balances = tx.balances

\* C16 witness: a mint was made, with a quantity of one amount, in a state
\* where a mint asking for another amount pays out the surplus as well.
C16_Witness ==
    \E i \in MintCalls, a \in MintAmounts :
        /\ MintTx(i).result = "ok"
        /\ a # i.amount
        /\ a # Surplus(i.code)
        /\ MintTx([i EXCEPT !.amount = a]).result = "ok"
        /\ MintTx(i).cmds[1].quantity.amount = Surplus(i.code)

\* C17: a mint that succeeds adds to its Pairing's base_locked the whole
\* of the base's balance that no Pairing of that base has locked, so that
\* none is left, and leaves every other Pairing, of the same base or of
\* another, as it was.
C17_MintTakesWholeSurplus ==
    \A i \in MintCalls :
        LET tx == MintTx(i) IN
        tx.result = "ok" =>
            /\ \A row \in pairings : row.synth_ticker # i.code => row \in tx.pairings
            /\ Locked(tx.pairings, i.code) - Locked(pairings, i.code) =
                   balances[BaseOf(i.code)] - Tracked(pairings, BaseOf(i.code))
            /\ Tracked(tx.pairings, BaseOf(i.code)) = tx.balances[BaseOf(i.code)]

\* C17 witness: two Pairings share a base; one has a locked reserve, and
\* a mint for the other has just locked a later deposit of the base.
C17_Witness ==
    /\ last.op = "mint"
    /\ Locked(pairings, last.symbol.code) > 0
    /\ \E row \in pairings :
           /\ row.synth_ticker # last.symbol.code
           /\ row.base_ticker = BaseOf(last.symbol.code)
           /\ row.base_locked.amount > 0
           /\ balances[row.base_ticker] =
                  row.base_locked.amount + Locked(pairings, last.symbol.code)

\* C18: after a mint for a Pairing of base B, and until the next
\* transfer, the base_locked of the Pairings of base B add up to exactly the
\* contract's balance of B, and no mint for a Pairing of base B succeeds: one
\* that passes the gates of mint fails with NoNewDeposit.
C18_NoSecondMintWithoutDeposit ==
    last.op = "mint" =>
        LET B == BaseOf(last.symbol.code)
        IN  /\ Tracked(pairings, B) = balances[B]
            /\ \A i \in MintCalls :
                   (HasPairing(i.code) /\ BaseOf(i.code) = B) =>
                       /\ MintTx(i).result # "ok"
                       /\ MintGatesHold(i) => MintTx(i).result = "NoNewDeposit"

\* C18 witness: right after a mint, a mint for another Pairing of the
\* same base passes every gate, the contract holds that Pairing's synth, and
\* the mint fails with NoNewDeposit.
C18_Witness ==
    /\ last.op = "mint"
    /\ \E i \in MintCalls :
           /\ HasPairing(i.code)
           /\ i.code # last.symbol.code
           /\ BaseOf(i.code) = BaseOf(last.symbol.code)
           /\ MintGatesHold(i)
           /\ balances[i.code] > 0
           /\ MintTx(i).result = "NoNewDeposit"

\* C19: for every Pairing, base_locked is the synth the contract has
\* paid out in mints of that Pairing less the synth it has burned in
\* redemptions of it, and a ticker without Pairing has no synth in issue;
\* and a step issues of a synth no more than the balance of its base that
\* was deposited and is locked by no Pairing yet.
C19_LockedIsSynthInIssue ==
    /\ [](\A row \in pairings : row.base_locked.amount = issued[row.synth_ticker])
    /\ [](\A t \in Tickers : ~HasPairing(t) => issued[t] = 0)
    /\ [][\A t \in Tickers :
              issued'[t] > issued[t] =>
                  /\ HasPairing(t)
                  /\ issued'[t] - issued[t] <= Surplus(t)]_vars

\* C19 witness: a Pairing has synth in issue after a mint and a
\* redemption, while another Pairing of the same base has synth in issue too.
C19_Witness ==
    /\ last.op = "transfer"
    /\ Len(last.cmds) = 2
    /\ \E r1 \in pairings, r2 \in pairings :
           /\ r1.synth_ticker = last.symbol.code
           /\ r2.synth_ticker # r1.synth_ticker
           /\ r2.base_ticker = r1.base_ticker
           /\ issued[r2.synth_ticker] > 0
           /\ r2.base_locked.amount > 0

\* C20: a step that is a redemption leaves, for every ticker, the
\* contract's balance less the base_locked of the Pairings of that base as
\* it was, the reserve and the balance of the redeemed Pairing's base having
\* fallen by the same amount; and no mint call that did not succeed before
\* the redemption succeeds after it.
C20_RedemptionKeepsSurplus ==
    [][(last'.op = "transfer" /\ pairings' # pairings) =>
           /\ \A b \in Tickers :
                  balances'[b] - Tracked(pairings', b) = balances[b] - Tracked(pairings, b)
           /\ \E row \in pairings :
                  /\ row.synth_ticker = last'.symbol.code
                  /\ balances'[row.base_ticker] < balances[row.base_ticker]
                  /\ balances[row.base_ticker] - balances'[row.base_ticker] =
                         row.base_locked.amount - Locked(pairings', row.synth_ticker)
           /\ \A j \in MintCalls :
                  MintTx(j)'.result = "ok" => MintTx(j).result = "ok"
      ]_vars

\* C20 witness: right after a redemption the contract holds the synth
\* of the redeemed Pairing, and a mint for it that passes every gate fails
\* with NoNewDeposit.
C20_Witness ==
    /\ last.op = "transfer"
    /\ Len(last.cmds) = 2
    /\ \E j \in MintCalls :
           /\ j.code = last.symbol.code
           /\ MintGatesHold(j)
           /\ balances[j.code] > 0
           /\ MintTx(j).result = "NoNewDeposit"

====
